---- MODULE Spec2Model ----
(***************************************************************************)
(* Model of corrosion's AssertVec::contains_only (src/assert/vec.rs).      *)
(*                                                                         *)
(* One call of AssertVec::new(actual).contains_only(expected) is a run of  *)
(* the state machine: one step per iteration of the matching loop, then    *)
(* the two report sections, then the return or the panic.  Indices are     *)
(* 0-based as in the source; At(s, i) reads a Vec at a 0-based index.      *)
(* A HashSet<usize> is a duplicate-free sequence: the order of the         *)
(* sequence is the set's iteration order, which the program does not       *)
(* control, so every operation that builds a set picks any order.          *)
(***************************************************************************)
EXTENDS Naturals, Sequences, FiniteSets, TLC

\* Longest Vec explored.
MaxLen == 3
\* Number of distinct element values explored (elements are 0 .. MaxVal-1).
MaxVal == 2

Values == 0 .. (MaxVal - 1)

RECURSIVE SeqsUpTo(_)
SeqsUpTo(n) ==
    IF n = 0 THEN {<<>>}
    ELSE SeqsUpTo(n - 1) \cup [1..n -> Values]

Vecs == SeqsUpTo(MaxLen)

VARIABLES
    actual,            \* self.0, the Vec wrapped by the asserter
    expected,          \* the argument of contains_only
    pc,                \* position in contains_only
    self_idx,          \* index the enumerate() of the loop yields next
    exp_leftovers,     \* working list of unclaimed expected indices
    self_leftovers,    \* HashSet of unexpected actual indices
    matched,           \* history: pairs <<self_idx, exp_idx>> claimed so far
    comparisons,       \* history: element equality tests evaluated so far
    error_message,     \* the String the sections are written to
    assertion_failed,  \* the flag of the same name
    panic_message      \* payload of the panic!, NoMessage when none

vars == <<actual, expected, pc, self_idx, exp_leftovers, self_leftovers,
          matched, comparisons, error_message, assertion_failed,
          panic_message>>

NoMessage == "<no panic>"

\* ---------------------------------------------------------------------
\* Vec and HashSet primitives

At(v, i) == v[i + 1]

Range(s) == {s[j] : j \in DOMAIN s}

\* (0..=len).collect(): one index too many.
CollectRangeInclusive(len) == [j \in 1..(len + 1) |-> j - 1]

\* (0..len).collect(): the indices 0 .. len-1 in ascending order.
CollectRange(len) == [j \in 1..len |-> j - 1]

\* self.0.iter().enumerate(): the pair yielded by iteration number k.
EnumerateShifted(v, k) == <<k + 1, At(v, k)>>

Enumerate(v, k) == <<k, At(v, k)>>

\* swap_remove that drops the last element instead of element i.
SwapRemovePopsLast(v, i) == SubSeq(v, 1, Len(v) - 1)

\* swap_remove that overwrites element i but does not shorten the Vec.
SwapRemoveKeepsLength(v, i) ==
    [j \in 1..Len(v) |-> IF j = i + 1 THEN v[Len(v)] ELSE v[j]]

\* Vec::swap_remove(i): the last element takes the place of element i.
SwapRemove(v, i) ==
    [j \in 1..(Len(v) - 1) |-> IF j = i + 1 THEN v[Len(v)] ELSE v[j]]

\* Vec::remove(i): the elements after i shift down, the order is kept.
\* The alternative to swap_remove the working list could use.
OrderedRemove(v, i) ==
    [j \in 1..(Len(v) - 1) |-> IF j < i + 1 THEN v[j] ELSE v[j + 1]]

\* All iteration orders a HashSet holding the members S may have.
HashSets(S) ==
    {s \in [1..Cardinality(S) -> S] :
        \A i, j \in 1..Cardinality(S) : i # j => s[i] # s[j]}

HashContains(set, x) == \E j \in DOMAIN set : set[j] = x

HashIsEmpty(set) == Len(set) = 0

\* {:?} of a u32.
Debug(value) == ToString(value)

\* ---------------------------------------------------------------------
\* The scan of the working list: lines 77-85.  The iterator is lazy, so the
\* scan stops at the first entry whose expected element equals the value.
\* Result: kind "Some" with the position i in the working list, "None", or
\* "OutOfBounds" when expected[exp_idx] indexes past the end of expected.
\* cmps counts the element comparisons evaluated.

RECURSIVE ScanFrom(_, _, _, _)
ScanFrom(leftovers, exp, value, i) ==
    IF i >= Len(leftovers)
    THEN [kind |-> "None", i |-> i, cmps |-> i]
    ELSE LET exp_idx == At(leftovers, i) IN
         IF exp_idx >= Len(exp)
         THEN [kind |-> "OutOfBounds", i |-> i, cmps |-> i]
         ELSE IF At(exp, exp_idx) = value
              THEN [kind |-> "Some", i |-> i, cmps |-> i + 1]
              ELSE ScanFrom(leftovers, exp, value, i + 1)

\* The scan with expected indexed by the position in the working list
\* instead of by the index stored there.
RECURSIVE ScanByPosition(_, _, _, _)
ScanByPosition(leftovers, exp, value, i) ==
    IF i >= Len(leftovers)
    THEN [kind |-> "None", i |-> i, cmps |-> i]
    ELSE IF i >= Len(exp)
         THEN [kind |-> "OutOfBounds", i |-> i, cmps |-> i]
         ELSE IF At(exp, i) = value
              THEN [kind |-> "Some", i |-> i, cmps |-> i + 1]
              ELSE ScanByPosition(leftovers, exp, value, i + 1)

FirstMatchByPosition(leftovers, exp, value) ==
    ScanByPosition(leftovers, exp, value, 0)

FirstMatch(leftovers, exp, value) == ScanFrom(leftovers, exp, value, 0)

\* ---------------------------------------------------------------------
\* write_bad_values: lines 117-135.  The text appended to str_buf.

RECURSIVE WriteRest(_, _, _)
WriteRest(values, bad_indices, i) ==
    IF i >= Len(values) THEN ""
    ELSE (IF HashContains(bad_indices, i)
          THEN ", " \o Debug(At(values, i))
          ELSE ", _")
         \o WriteRest(values, bad_indices, i + 1)

\* write_bad_values that lists the bad elements by iterating bad_indices.
RECURSIVE WriteIterated(_, _, _)
WriteIterated(values, bad_indices, n) ==
    IF n > Len(bad_indices) THEN ""
    ELSE (IF n = 1 THEN "" ELSE ", ")
         \o Debug(At(values, bad_indices[n]))
         \o WriteIterated(values, bad_indices, n + 1)

write_bad_values_iterating(values, bad_indices) ==
    "[" \o WriteIterated(values, bad_indices, 1) \o "]\n"

\* write_bad_values whose loop tests the index of the previous element.
RECURSIVE WriteRestStale(_, _, _)
WriteRestStale(values, bad_indices, i) ==
    IF i >= Len(values) THEN ""
    ELSE (IF HashContains(bad_indices, i - 1)
          THEN ", " \o Debug(At(values, i))
          ELSE ", _")
         \o WriteRestStale(values, bad_indices, i + 1)

write_bad_values_stale(values, bad_indices) ==
    "[" \o (IF HashContains(bad_indices, 0)
            THEN Debug(At(values, 0))
            ELSE "_")
        \o WriteRestStale(values, bad_indices, 1)
        \o "]\n"

write_bad_values(values, bad_indices) ==
    "[" \o (IF HashContains(bad_indices, 0)
            THEN Debug(At(values, 0))
            ELSE "_")
        \o WriteRest(values, bad_indices, 1)
        \o "]\n"

\* The panic! format string without its summary line.
PanicTextBare(message) == message

PanicText(message) == "Vectors contain different values:\n" \o message

\* ---------------------------------------------------------------------
\* contains_only

Init ==
    /\ actual \in Vecs
    /\ expected \in Vecs
    /\ pc = "loop"
    /\ self_idx = 0
    /\ exp_leftovers = CollectRange(Len(expected))
    /\ self_leftovers = <<>>
    /\ matched = {}
    /\ comparisons = 0
    /\ error_message = ""
    /\ assertion_failed = FALSE
    /\ panic_message = NoMessage

\* Loop body, arm Some(i): a remaining expected index holds an equal element.
LoopMatch ==
    /\ pc = "loop"
    /\ self_idx < Len(actual)
    /\ LET item == Enumerate(actual, self_idx)
           r == FirstMatch(exp_leftovers, expected, item[2])
       IN
       /\ r.kind = "Some"
       /\ exp_leftovers' = SwapRemove(exp_leftovers, r.i)
       /\ matched' = matched \cup {<<item[1], At(exp_leftovers, r.i)>>}
       /\ comparisons' = comparisons + r.cmps
    /\ self_idx' = self_idx + 1
    /\ UNCHANGED <<actual, expected, pc, self_leftovers, error_message,
                   assertion_failed, panic_message>>

\* Loop body, arm None: no remaining expected index holds an equal element.
LoopNoMatch ==
    /\ pc = "loop"
    /\ self_idx < Len(actual)
    /\ LET item == Enumerate(actual, self_idx)
           r == FirstMatch(exp_leftovers, expected, item[2])
       IN
       /\ r.kind # "Some"
       /\ comparisons' = comparisons + r.cmps
       /\ IF r.kind = "OutOfBounds"
          THEN /\ pc' = "index_panic"
               /\ UNCHANGED <<self_idx, self_leftovers>>
          ELSE /\ self_leftovers' \in
                      HashSets(Range(self_leftovers) \cup {item[1]})
               /\ self_idx' = self_idx + 1
               /\ UNCHANGED pc
    /\ UNCHANGED <<actual, expected, exp_leftovers, matched, error_message,
                   assertion_failed, panic_message>>

\* The iterator over self.0 is exhausted.
LoopEnd ==
    /\ pc = "loop"
    /\ self_idx >= Len(actual)
    /\ pc' = "check_self"
    /\ UNCHANGED <<actual, expected, self_idx, exp_leftovers, self_leftovers,
                   matched, comparisons, error_message, assertion_failed,
                   panic_message>>

\* Lines 95-102, the section is written.
WriteUnexpected ==
    /\ pc = "check_self"
    /\ ~HashIsEmpty(self_leftovers)
    /\ IF Len(actual) = 0
       THEN /\ pc' = "unwrap_panic"
            /\ UNCHANGED <<error_message, assertion_failed>>
       ELSE /\ error_message' = error_message \o "Unexpected values: "
                                  \o write_bad_values(actual, self_leftovers)
            /\ assertion_failed' = TRUE
            /\ pc' = "check_exp"
    /\ UNCHANGED <<actual, expected, self_idx, exp_leftovers, self_leftovers,
                   matched, comparisons, panic_message>>

\* Lines 95-102, the condition is false.
SkipUnexpected ==
    /\ pc = "check_self"
    /\ HashIsEmpty(self_leftovers)
    /\ pc' = "check_exp"
    /\ UNCHANGED <<actual, expected, self_idx, exp_leftovers, self_leftovers,
                   matched, comparisons, error_message, assertion_failed,
                   panic_message>>

\* WriteMissing with &self.0 passed to write_bad_values instead of &expected.
WriteMissingFromActual ==
    /\ pc = "check_exp"
    /\ Len(exp_leftovers) # 0
    /\ IF Len(actual) = 0
       THEN /\ pc' = "unwrap_panic"
            /\ UNCHANGED <<error_message, assertion_failed>>
       ELSE /\ \E bad_indices \in HashSets(Range(exp_leftovers)) :
                  error_message' = error_message
                                     \o "Missing expected values: "
                                     \o write_bad_values(actual, bad_indices)
            /\ assertion_failed' = TRUE
            /\ pc' = "finish"
    /\ UNCHANGED <<actual, expected, self_idx, exp_leftovers, self_leftovers,
                   matched, comparisons, panic_message>>

\* Lines 103-110, the section is written; the working list is collected
\* into a HashSet first.
WriteMissing ==
    /\ pc = "check_exp"
    /\ Len(exp_leftovers) # 0
    /\ IF Len(expected) = 0
       THEN /\ pc' = "unwrap_panic"
            /\ UNCHANGED <<error_message, assertion_failed>>
       ELSE /\ \E bad_indices \in HashSets(Range(exp_leftovers)) :
                  error_message' = error_message
                                     \o "Missing expected values: "
                                     \o write_bad_values(expected, bad_indices)
            /\ assertion_failed' = TRUE
            /\ pc' = "finish"
    /\ UNCHANGED <<actual, expected, self_idx, exp_leftovers, self_leftovers,
                   matched, comparisons, panic_message>>

\* Lines 103-110, the condition is false.
SkipMissing ==
    /\ pc = "check_exp"
    /\ Len(exp_leftovers) = 0
    /\ pc' = "finish"
    /\ UNCHANGED <<actual, expected, self_idx, exp_leftovers, self_leftovers,
                   matched, comparisons, error_message, assertion_failed,
                   panic_message>>

\* Lines 112-114, the assertion failed.
Panic ==
    /\ pc = "finish"
    /\ assertion_failed
    /\ panic_message' = PanicText(error_message)
    /\ pc' = "panicked"
    /\ UNCHANGED <<actual, expected, self_idx, exp_leftovers, self_leftovers,
                   matched, comparisons, error_message, assertion_failed>>

\* Lines 112-115, the function returns.
Return ==
    /\ pc = "finish"
    /\ ~assertion_failed
    /\ pc' = "returned"
    /\ UNCHANGED <<actual, expected, self_idx, exp_leftovers, self_leftovers,
                   matched, comparisons, error_message, assertion_failed,
                   panic_message>>

Next ==
    \/ LoopMatch
    \/ LoopNoMatch
    \/ LoopEnd
    \/ WriteUnexpected
    \/ SkipUnexpected
    \/ WriteMissing
    \/ SkipMissing
    \/ Panic
    \/ Return

Spec == Init /\ [][Next]_vars

\* contains_only is sequential code: a step that can be taken is taken.
FairSpec == Spec /\ WF_vars(Next)

TypeOK ==
    /\ actual \in Vecs
    /\ expected \in Vecs
    /\ pc \in {"loop", "check_self", "check_exp", "finish", "returned",
               "panicked", "index_panic", "unwrap_panic"}
    /\ self_idx \in 0..Len(actual)
    /\ assertion_failed \in BOOLEAN

\* ---------------------------------------------------------------------
\* contains_only as a function of its inputs.

\* The matching loop from iteration k up to (not including) iteration n,
\* started with working list leftovers and unexpected indices unexp.
\* removal says how a claimed entry leaves the working list: "swap" as the
\* code does, or "ordered".
RECURSIVE MatchPass(_, _, _, _, _, _, _)
MatchPass(act, exp, k, n, leftovers, unexp, removal) ==
    IF k >= n THEN [exp_leftovers |-> leftovers, self_leftovers |-> unexp]
    ELSE LET item == Enumerate(act, k)
             r == FirstMatch(leftovers, exp, item[2])
         IN IF r.kind = "Some"
            THEN MatchPass(act, exp, k + 1, n,
                           IF removal = "swap"
                           THEN SwapRemove(leftovers, r.i)
                           ELSE OrderedRemove(leftovers, r.i),
                           unexp, removal)
            ELSE MatchPass(act, exp, k + 1, n, leftovers,
                           unexp \cup {item[1]}, removal)

\* The members of S in ascending order.
Ascending(S) ==
    CHOOSE s \in HashSets(S) : \A i, j \in DOMAIN s : i < j => s[i] < s[j]

\* The panic message of contains_only(exp) on act, NoMessage when it returns:
\* lines 93-114 applied to the result of the loop.
MessageOf(act, exp) ==
    LET r == MatchPass(act, exp, 0, Len(act), CollectRange(Len(exp)), {},
                       "swap")
        unexpected_section ==
            IF r.self_leftovers # {}
            THEN "Unexpected values: "
                   \o write_bad_values(act, Ascending(r.self_leftovers))
            ELSE ""
        missing_section ==
            IF Len(r.exp_leftovers) # 0
            THEN "Missing expected values: "
                   \o write_bad_values(exp, Ascending(Range(r.exp_leftovers)))
            ELSE ""
    IN IF r.self_leftovers # {} \/ Len(r.exp_leftovers) # 0
       THEN PanicText(unexpected_section \o missing_section)
       ELSE NoMessage

\* ---------------------------------------------------------------------
\* Vocabulary of the properties

Count(v, s) == Cardinality({j \in DOMAIN s : s[j] = v})

Surplus(a, b) == IF a > b THEN a - b ELSE 0

SameCounts == \A v \in Values : Count(v, actual) = Count(v, expected)

Terminated == pc \in {"returned", "panicked", "index_panic", "unwrap_panic"}

PassOver == pc \in {"check_self", "check_exp", "finish", "returned", "panicked"}

\* The unexpected actual indices and the unmatched expected indices.
Unexpected == Range(self_leftovers)
Unmatched == Range(exp_leftovers)

\* matched pairs every actual index with exactly one expected index and
\* back, and paired elements are equal.
MatchedIsBijection ==
    /\ \A i \in 0..(Len(actual) - 1) :
           Cardinality({p \in matched : p[1] = i}) = 1
    /\ \A j \in 0..(Len(expected) - 1) :
           Cardinality({p \in matched : p[2] = j}) = 1
    /\ \A p \in matched :
           /\ p[1] \in 0..(Len(actual) - 1)
           /\ p[2] \in 0..(Len(expected) - 1)
           /\ At(actual, p[1]) = At(expected, p[2])

\* C1: contains_only returns without panicking exactly when every value
\* occurs as often in actual as in expected (and then the pairs it formed
\* are an equality-preserving bijection of the indices); otherwise it
\* panics with the report.  The order of the elements plays no part.
C1_ReturnsIffSameCounts ==
    Terminated =>
        IF SameCounts
        THEN pc = "returned" /\ panic_message = NoMessage /\ MatchedIsBijection
        ELSE pc = "panicked" /\ panic_message # NoMessage

\* A reordered Vec with a duplicate is accepted.
C1_Witness ==
    /\ pc = "returned"
    /\ Len(actual) = 3
    /\ actual # expected
    /\ \E v \in Values : Count(v, actual) = 2

\* C2: after the matching pass, for every value v, the unexpected actual
\* indices holding v number max(0, count in actual - count in expected) and
\* the entries of the working list holding v number
\* max(0, count in expected - count in actual); no value is on both sides.
C2_ReportIsSurplus ==
    PassOver =>
        \A v \in Values :
            LET ca == Count(v, actual)
                ce == Count(v, expected)
                un == {i \in Unexpected : At(actual, i) = v}
                mi == {q \in DOMAIN exp_leftovers :
                          At(expected, exp_leftovers[q]) = v}
            IN /\ Cardinality(un) = Surplus(ca, ce)
               /\ Cardinality(mi) = Surplus(ce, ca)
               /\ un = {} \/ mi = {}

\* One value in surplus in actual, another in surplus in expected, a third
\* element matched.
C2_Witness ==
    /\ pc = "finish"
    /\ matched # {}
    /\ \E v, w \in Values :
           /\ Count(v, actual) > Count(v, expected)
           /\ Count(w, expected) > Count(w, actual)
           /\ Count(v, expected) > 0

\* C5: after k actual elements are processed, each processed actual index
\* is matched or unexpected and never both, each expected index is claimed
\* by exactly one actual index or held exactly once in the working list and
\* never both, and k - |unexpected| = len(expected) - |working list|.
C5_Partition ==
    pc # "index_panic" =>
        /\ \A i \in 0..(self_idx - 1) :
               (i \in Unexpected) # (\E p \in matched : p[1] = i)
        /\ \A i \in Unexpected : i < self_idx
        /\ \A p \in matched : p[1] < self_idx
        /\ Len(self_leftovers) = Cardinality(Unexpected)
        /\ \A j \in 0..(Len(expected) - 1) :
               LET claims == {p \in matched : p[2] = j}
                   held == {q \in DOMAIN exp_leftovers : exp_leftovers[q] = j}
               IN \/ Cardinality(claims) = 1 /\ held = {}
                  \/ claims = {} /\ Cardinality(held) = 1
        /\ self_idx + Len(exp_leftovers)
               = Len(expected) + Cardinality(Unexpected)
        /\ PassOver => self_idx = Len(actual)

\* In the middle of the loop, with a matched and an unexpected element
\* behind and an unclaimed expected index left.
C5_Witness ==
    /\ pc = "loop"
    /\ self_idx = 2
    /\ self_idx < Len(actual)
    /\ matched # {}
    /\ Unexpected # {}
    /\ Len(exp_leftovers) > 0

\* C9: for every value in surplus in actual, the unexpected positions
\* holding it are exactly its last (count in actual - count in expected)
\* occurrences in actual.
C9_LastOccurrencesFlagged ==
    PassOver =>
        \A v \in Values :
            LET ca == Count(v, actual)
                ce == Count(v, expected)
                occ == {i \in 0..(Len(actual) - 1) : At(actual, i) = v}
            IN ca > ce =>
                   {i \in Unexpected : i < Len(actual) /\ At(actual, i) = v}
                     = {i \in occ :
                           Cardinality({i2 \in occ : i2 > i}) < ca - ce}

\* A value occurs three times in actual and once in expected: the first
\* occurrence is matched and the other two are flagged.
C9_Witness ==
    /\ pc = "finish"
    /\ \E v \in Values :
           /\ Count(v, actual) = 3
           /\ Count(v, expected) = 1
           /\ Unexpected = {1, 2}

\* Positional rendering of a section, stated directly: one entry per
\* position, the element's debug text at the positions in S and "_" at the
\* others, joined with ", " between brackets.
Entries(values, S) ==
    [j \in 1..Len(values) |->
        IF (j - 1) \in S THEN Debug(values[j]) ELSE "_"]

RECURSIVE Join(_, _)
Join(entries, sep) ==
    IF Len(entries) = 0 THEN ""
    ELSE IF Len(entries) = 1 THEN entries[1]
    ELSE entries[1] \o sep \o Join(Tail(entries), sep)

Positional(values, S) == "[" \o Join(Entries(values, S), ", ") \o "]"

UnexpectedLine == "Unexpected values: " \o Positional(actual, Unexpected) \o "\n"
MissingLine == "Missing expected values: " \o Positional(expected, Unmatched) \o "\n"

\* C3: the panic message is the summary line, then the "Unexpected values"
\* line exactly when the unexpected set is non-empty, then the "Missing
\* expected values" line exactly when the unmatched set is non-empty, and
\* nothing else; a panic has at least one of the two lines, and there is no
\* message when both sets are empty.
C3_MessageSections ==
    /\ pc = "panicked" =>
           /\ panic_message
                = "Vectors contain different values:\n"
                    \o (IF Unexpected # {} THEN UnexpectedLine ELSE "")
                    \o (IF Unmatched # {} THEN MissingLine ELSE "")
           /\ Unexpected # {} \/ Unmatched # {}
    /\ pc # "panicked" => panic_message = NoMessage
    /\ (Terminated /\ Unexpected = {} /\ Unmatched = {}) => pc = "returned"

\* A panic whose message has the missing line only.
C3_Witness ==
    /\ pc = "panicked"
    /\ Unexpected = {}
    /\ Unmatched # {}
    /\ matched # {}
    /\ panic_message
         = "Vectors contain different values:\n" \o MissingLine

\* C4: each section written to the message is positional: one entry per
\* position of its Vec in ascending index order, joined with ", ", the
\* debug text of the element at the positions of the leftover set and "_"
\* at every other position.
C4_PositionalSections ==
    /\ pc = "check_exp" =>
           error_message = IF Unexpected # {} THEN UnexpectedLine ELSE ""
    /\ pc \in {"finish", "returned", "panicked"} =>
           error_message
             = (IF Unexpected # {} THEN UnexpectedLine ELSE "")
                 \o (IF Unmatched # {} THEN MissingLine ELSE "")

\* Both sections written, each with a placeholder before and after or
\* around the reported element.
C4_Witness ==
    /\ pc = "finish"
    /\ Len(actual) = 3
    /\ Len(expected) = 3
    /\ Unexpected = {1}
    /\ Unmatched = {2}
    /\ error_message
         = "Unexpected values: [_, " \o Debug(At(actual, 1)) \o ", _]\n"
             \o "Missing expected values: [_, _, "
             \o Debug(At(expected, 2)) \o "]\n"

\* C6: the outcome and the message of a run are a function of actual and
\* expected alone: whatever iteration orders the hash sets took, the run
\* ends as MessageOf(actual, expected) says.
C6_Deterministic ==
    Terminated =>
        /\ panic_message = MessageOf(actual, expected)
        /\ (pc = "returned") = (MessageOf(actual, expected) = NoMessage)
        /\ (pc = "panicked") = (MessageOf(actual, expected) # NoMessage)

\* A failed run whose unexpected set iterates in descending order.
C6_Witness ==
    /\ pc = "panicked"
    /\ Len(self_leftovers) >= 2
    /\ self_leftovers[1] > self_leftovers[2]
    /\ Unmatched # {}

\* C7: every run ends, by returning or by the report's panic, after exactly
\* len(actual) iterations of the loop, having compared elements at most
\* len(actual) * len(expected) times.
C7_TerminatesWithinBudget ==
    /\ [](/\ self_idx <= Len(actual)
          /\ comparisons <= Len(actual) * Len(expected)
          /\ PassOver => self_idx = Len(actual))
    /\ <>(pc \in {"returned", "panicked"} /\ self_idx = Len(actual))

\* A finished run that used the whole budget of comparisons.
C7_Witness ==
    /\ pc = "panicked"
    /\ Len(actual) = MaxLen
    /\ Len(expected) = MaxLen
    /\ comparisons = Len(actual) * Len(expected)

\* C8: after every iteration the run (which swap-removes) has flagged the
\* same actual indices as a run that removes in order, and has as many
\* expected indices left; so both runs fail or both succeed.
C8_RemovalOrderIrrelevant ==
    pc # "index_panic" =>
        LET ordered == MatchPass(actual, expected, 0, self_idx,
                                 CollectRange(Len(expected)), {}, "ordered")
        IN /\ ordered.self_leftovers = Unexpected
           /\ Len(ordered.exp_leftovers) = Len(exp_leftovers)
           /\ Terminated =>
                  (pc = "returned")
                    = (ordered.self_leftovers = {}
                         /\ Len(ordered.exp_leftovers) = 0)

\* The working list is out of order after a swap-removal, and the scan
\* has since been run on it.
C8_Witness ==
    /\ PassOver
    /\ Cardinality(matched) >= 2
    /\ <<0, 0>> \in matched
    /\ \E p \in matched : p[1] = 1 /\ p[2] = Len(expected) - 1
    /\ Len(expected) = 3

\* C10: no run ends in a panic other than the report's: write_bad_values
\* is never reached with an empty Vec, and every index in the working list
\* or the unexpected set is within its Vec.
C10_NoOtherPanic ==
    /\ pc \notin {"index_panic", "unwrap_panic"}
    /\ \A q \in DOMAIN exp_leftovers : exp_leftovers[q] < Len(expected)
    /\ \A i \in Unexpected : i < Len(actual)
    /\ (pc = "check_self" /\ ~HashIsEmpty(self_leftovers)) => Len(actual) > 0
    /\ (pc = "check_exp" /\ Len(exp_leftovers) # 0) => Len(expected) > 0

\* Both sections were written, after scans that compared elements.
C10_Witness ==
    /\ pc = "finish"
    /\ assertion_failed
    /\ comparisons > 0
    /\ Unexpected # {}
    /\ Unmatched # {}

====
